---- MODULE Spec2Model ----
(***************************************************************************)
(* Model of objectReaderSHM.py: a reader of a fixed-layout shared-memory   *)
(* segment (SharedData: count + Detection[MAX_BOXES]) and a renderer that  *)
(* overlays the parsed detections on an image.                             *)
(*                                                                         *)
(* Strings are sequences of one-character strings.  An optional value is   *)
(* a sequence of length 0 (None) or 1 (the value).  A confidence is a      *)
(* binary fraction, kept as its numerator over ConfDen.                    *)
(***************************************************************************)
EXTENDS Integers, Sequences, FiniteSets, TLC

VARIABLES
    pc,           \* position of the single thread of control
    argv,         \* sys.argv[1:], the command-line arguments
    env,          \* the world outside the process: files, segment, codec
    io,           \* shared-memory and image operations performed, in order
    stdout,       \* messages printed, in order
    fd,           \* descriptor of the segment: "none", "open", "closed"
    shm,          \* mapping of the segment:    "none", "open", "closed"
    shared,       \* the local copy of the segment (Option)
    i,            \* loop index of read_shared_memory
    acc,          \* the list read_shared_memory is building
    rsm,          \* read_shared_memory: "notcalled", "running", "returned"
    detections,   \* what read_shared_memory returned / render's argument
    image_path,   \* render_detections' image_path
    out_arg,      \* the output_path argument as the caller passed it (Option)
    output_path,  \* render_detections' local output_path (Option)
    img,          \* the decoded image: Option of the marks drawn on it
    k,            \* loop index of render_detections
    rd,           \* render_detections: "notcalled", "running", "returned"
    rdResult,     \* what render_detections returned (Option of a path)
    caller,       \* who called render_detections: "main" or "direct"
    written,      \* output files actually written: [path, marks]
    status        \* exit status of main (Option)

vars == <<pc, argv, env, io, stdout, fd, shm, shared, i, acc, rsm, detections,
          image_path, out_arg, output_path, img, k, rd, rdResult, caller,
          written, status>>

\* ---------------------------------------------------------------- bounds
MaxArgs == 3
MaxCount == 12
NumPatterns == 2
MaxPathLen == 3
MaxDets == 2

\* ------------------------------------------------------------- constants
MAX_BOXES == 10
IntMax == 2147483647
IntMin == -IntMax - 1
ConfDen == 8

None == <<>>
Some(v) == <<v>>

\* One printed message: its kind and what it mentions.
Msg(m, a) == [msg |-> m, arg |-> a]

\* ------------------------------------------------------------ data model
\* One Detection record of the segment.
Detection(c, f, x, y, w, h) ==
    [class_id |-> c, confidence |-> f, x |-> x, y |-> y, w |-> w, h |-> h]

\* The det array of a segment, entries distinct so that order is visible.
DetArray(p) ==
    [j \in 0..(MAX_BOXES - 1) |->
        Detection(j + p, (3 * j + p) % (ConfDen + 1), 10 * j, 20 + p, 30, 40 + j)]

\* The count values a segment may carry (a 32-bit signed integer).
CountValues == {IntMin, -1, IntMax} \cup 0..MaxCount

\* A segment as the producer left it.
SharedData == [count : CountValues, det : {DetArray(p) : p \in 0..(NumPatterns - 1)}]

\* The paths given on the command line.
ArgPaths == {<<"a", ".", "b">>, <<"a">>}

Env == [imageExists : BOOLEAN, shmExists : BOOLEAN, openOK : BOOLEAN,
        mmapOK : BOOLEAN, decodable : BOOLEAN, writeOK : BOOLEAN,
        segment : SharedData]

\* ------------------------------------------------------------------ Init
Init ==
    /\ pc = "main_args"
    /\ argv \in UNION {[1..n -> ArgPaths] : n \in 0..MaxArgs}
    /\ env \in Env
    /\ io = <<>>
    /\ stdout = <<>>
    /\ fd = "none"
    /\ shm = "none"
    /\ shared = None
    /\ i = 0
    /\ acc = <<>>
    /\ rsm = "notcalled"
    /\ detections = None
    /\ image_path = <<>>
    /\ out_arg = None
    /\ output_path = None
    /\ img = None
    /\ k = 0
    /\ rd = "notcalled"
    /\ rdResult = None
    /\ caller = "main"
    /\ written = <<>>
    /\ status = None

rsmVars == <<fd, shm, shared, i, acc, rsm, detections>>
rdVars == <<out_arg, output_path, img, k, rd, rdResult, written>>

\* ------------------------------------------------------------------ main
\* The usage test demanding at least one argument instead of exactly one.
BadArgsTooFew(args) == Len(args) + 1 < 2

\* The usage test of line 113; sys.argv also holds the program name.
BadArgs(args) == Len(args) + 1 # 2

\* main, lines 113-119: the argument-count check.
MainArgs ==
    /\ pc = "main_args"
    /\ IF BadArgs(argv)
       THEN /\ stdout' = stdout \o <<Msg("usage", <<>>)>>
            /\ status' = Some(1)
            /\ pc' = "done"
            /\ image_path' = image_path
       ELSE /\ image_path' = argv[1]
            /\ pc' = "main_exists"
            /\ UNCHANGED <<stdout, status>>
    /\ UNCHANGED <<argv, env, io, caller>>
    /\ UNCHANGED rsmVars
    /\ UNCHANGED rdVars

\* The image test left out.
ImageMissingIgnored(e) == FALSE

\* The test of line 121 on the input image path.
ImageMissing(e) == ~e.imageExists

\* main, lines 121-126: the input image must exist; then the read is called.
MainExists ==
    /\ pc = "main_exists"
    /\ io' = io \o <<"img_exists">>
    /\ IF ImageMissing(env)
       THEN /\ stdout' = stdout \o <<Msg("image_not_found", image_path)>>
            /\ status' = Some(1)
            /\ pc' = "done"
            /\ rsm' = rsm
       ELSE /\ rsm' = "running"
            /\ pc' = "rsm_exists"
            /\ UNCHANGED <<stdout, status>>
    /\ UNCHANGED <<argv, env, image_path, caller, fd, shm, shared, i, acc, detections>>
    /\ UNCHANGED rdVars

\* ---------------------------------------------------- read_shared_memory
\* The segment test left out.
SegmentMissingIgnored(e) == FALSE

\* The test of line 44 on the segment's path.
SegmentMissing(e) == ~e.shmExists

\* lines 43-46: the segment must exist at the expected path.
RsmExists ==
    /\ pc = "rsm_exists"
    /\ io' = io \o <<"shm_exists">>
    /\ IF SegmentMissing(env)
       THEN /\ stdout' = stdout \o <<Msg("shm_not_found", <<>>)>>
            /\ detections' = None
            /\ rsm' = "returned"
            /\ pc' = "main_after_read"
       ELSE /\ pc' = "rsm_open"
            /\ UNCHANGED <<stdout, detections, rsm>>
    /\ UNCHANGED <<argv, env, image_path, caller, status, fd, shm, shared, i, acc>>
    /\ UNCHANGED rdVars

\* line 48: os.open; a failure raises before any descriptor exists.
RsmOpen ==
    /\ pc = "rsm_open"
    /\ io' = io \o <<"shm_open">>
    /\ IF env.openOK
       THEN fd' = "open" /\ pc' = "rsm_mmap"
       ELSE fd' = fd /\ pc' = "rsm_except"
    /\ UNCHANGED <<argv, env, stdout, image_path, caller, status, shm, shared, i, acc,
                   rsm, detections>>
    /\ UNCHANGED rdVars

\* line 49: mmap of sizeof(SharedData) bytes; raises on a short segment.
RsmMmap ==
    /\ pc = "rsm_mmap"
    /\ io' = io \o <<"shm_mmap">>
    /\ IF env.mmapOK
       THEN shm' = "open" /\ pc' = "rsm_copy"
       ELSE shm' = shm /\ pc' = "rsm_except"
    /\ UNCHANGED <<argv, env, stdout, image_path, caller, status, fd, shared, i, acc,
                   rsm, detections>>
    /\ UNCHANGED rdVars

\* lines 51-53: copy the bytes out of the mapping, start the list.
RsmCopy ==
    /\ pc = "rsm_copy"
    /\ shared' = Some(env.segment)
    /\ acc' = <<>>
    /\ i' = 0
    /\ pc' = "rsm_loop"
    /\ UNCHANGED <<argv, env, io, stdout, image_path, caller, status, fd, shm, rsm,
                   detections>>
    /\ UNCHANGED rdVars

\* The record with x and y taken from each other's field.
DetRecordSwapped(det) ==
    [class_id |-> det.class_id, confidence |-> det.confidence,
     x |-> det.y, y |-> det.x, w |-> det.w, h |-> det.h]

\* The record appended for one array entry, lines 56-63.
DetRecord(det) ==
    [class_id |-> det.class_id, confidence |-> det.confidence,
     x |-> det.x, y |-> det.y, w |-> det.w, h |-> det.h]

\* Indexing the ctypes array, line 55: an index outside it raises.
InArray(j) == 0 <= j /\ j < MAX_BOXES

\* The range clamped to the capacity of the array.
RangeHasClamped(j, n) == j < n /\ j < MAX_BOXES

\* Whether range(n) of line 54 still yields index j.
RangeHas(j, n) == j < n

\* lines 54-63: one iteration of `for i in range(shared.count)`.
RsmLoop ==
    /\ pc = "rsm_loop"
    /\ IF RangeHas(i, shared[1].count)
       THEN IF InArray(i)
            THEN /\ acc' = Append(acc, DetRecord(shared[1].det[i]))
                 /\ i' = i + 1
                 /\ pc' = pc
            ELSE /\ pc' = "rsm_except"
                 /\ UNCHANGED <<acc, i>>
       ELSE /\ pc' = "rsm_close"
            /\ UNCHANGED <<acc, i>>
    /\ UNCHANGED <<argv, env, io, stdout, image_path, caller, status, fd, shm, shared,
                   rsm, detections>>
    /\ UNCHANGED rdVars

\* lines 65-68: close the mapping and the descriptor, return the list.
RsmClose ==
    /\ pc = "rsm_close"
    /\ shm' = "closed"
    /\ fd' = "closed"
    /\ detections' = Some(acc)
    /\ rsm' = "returned"
    /\ pc' = "main_after_read"
    /\ UNCHANGED <<argv, env, io, stdout, image_path, caller, status, shared, i, acc>>
    /\ UNCHANGED rdVars

\* What becomes of the resources on the exception path, lines 70-72: nothing
\* closes the descriptor; the mapping object is dropped with the frame, and
\* whether its finalizer has run by then is up to the interpreter.
ExceptRelease(f, m) ==
    {<<f, m2>> : m2 \in (IF m = "open" THEN {"open", "closed"} ELSE {m})}

\* lines 70-72: any exception is printed and None returned.
RsmExcept ==
    /\ pc = "rsm_except"
    /\ stdout' = stdout \o <<Msg("shm_error", <<>>)>>
    /\ \E r \in ExceptRelease(fd, shm) : fd' = r[1] /\ shm' = r[2]
    /\ detections' = None
    /\ rsm' = "returned"
    /\ pc' = "main_after_read"
    /\ UNCHANGED <<argv, env, io, image_path, caller, status, shared, i, acc>>
    /\ UNCHANGED rdVars

\* ------------------------------------------------------------ formatting
Digits == <<"0", "1", "2", "3", "4", "5", "6", "7", "8", "9">>

RECURSIVE NatToStr(_)
\* str() of a natural number, most significant digit first.
NatToStr(n) ==
    IF n < 10 THEN <<Digits[n + 1]>>
    ELSE NatToStr(n \div 10) \o <<Digits[(n % 10) + 1]>>

\* str() of an integer, as the f-string of line 99 renders class_id.
IntToStr(n) == IF n < 0 THEN <<"-">> \o NatToStr(-n) ELSE NatToStr(n)

\* The value c/ConfDen in hundredths, rounded to nearest, ties to even.
RoundHundredths(a) ==
    LET q == (100 * a) \div ConfDen
        r == (100 * a) % ConfDen
    IN  IF 2 * r > ConfDen \/ (2 * r = ConfDen /\ q % 2 = 1) THEN q + 1 ELSE q

\* format(conf, ".2f") of the confidence c/ConfDen, lines 99 and 132.
Fmt2(c) ==
    LET a == IF c < 0 THEN -c ELSE c
        hd == RoundHundredths(a)
    IN  (IF c < 0 THEN <<"-">> ELSE <<>>)
        \o NatToStr(hd \div 100)
        \o <<".", Digits[((hd % 100) \div 10) + 1], Digits[(hd % 10) + 1]>>

\* The label of line 99: f"ID:{det['class_id']} {conf:.2f}".
Label(det) ==
    <<"I", "D", ":">> \o IntToStr(det.class_id) \o <<" ">> \o Fmt2(det.confidence)

\* The line main prints for detection j, lines 132-133.
DetLine(j, det) ==
    [idx |-> j, class_id |-> IntToStr(det.class_id), conf |-> Fmt2(det.confidence),
     box |-> <<det.x, det.y, det.w, det.h>>]

Max(a, b) == IF a >= b THEN a ELSE b

\* ------------------------------------------------------- os.path.splitext
\* The last position of character c in p, 0 when absent (str.rfind).
RFind(p, c) ==
    LET S == {j \in 1..Len(p) : p[j] = c}
    IN  IF S = {} THEN 0 ELSE CHOOSE j \in S : \A m \in S : m <= j

\* A split at the last dot of the whole path, whatever follows it.
SplitExtLastDot(p) ==
    LET dotIndex == RFind(p, ".")
    IN  IF dotIndex > 0
        THEN <<SubSeq(p, 1, dotIndex - 1), SubSeq(p, dotIndex, Len(p))>>
        ELSE <<p, <<>>>>

\* os.path.splitext(p), line 80: the extension starts at the last dot of the
\* last path component, leading dots of the component not counted.
SplitExt(p) ==
    LET sepIndex == RFind(p, "/")
        dotIndex == RFind(p, ".")
    IN  IF /\ dotIndex > sepIndex
           /\ \E j \in (sepIndex + 1)..(dotIndex - 1) : p[j] # "."
        THEN <<SubSeq(p, 1, dotIndex - 1), SubSeq(p, dotIndex, Len(p))>>
        ELSE <<p, <<>>>>

Suffix == <<"_", "d", "e", "t", "e", "c", "t", "e", "d">>

\* Lines 79-81: the output path when the caller gave none.
DefaultOutput(p, out) ==
    IF out = None
    THEN Some(SplitExt(p)[1] \o Suffix \o SplitExt(p)[2])
    ELSE out

\* --------------------------------------------------- main, after the read
\* What main prints about the list, lines 130-133.
MainListing(ds) ==
    <<Msg("read", Len(ds))>> \o [j \in 1..Len(ds) |-> Msg("det", DetLine(j - 1, ds[j]))]

\* main, lines 127-136: stop on None, else list the records and render.
MainAfterRead ==
    /\ pc = "main_after_read"
    /\ IF detections = None
       THEN /\ status' = Some(1)
            /\ pc' = "done"
            /\ UNCHANGED <<stdout, rd, out_arg, output_path>>
       ELSE /\ stdout' = stdout \o MainListing(detections[1])
            /\ rd' = "running"
            /\ out_arg' = None
            /\ output_path' = None
            /\ pc' = "rd_path"
            /\ status' = status
    /\ UNCHANGED <<argv, env, io, image_path, caller, img, k, rdResult, written>>
    /\ UNCHANGED rsmVars

\* ----------------------------------------------------- render_detections
\* lines 79-81: derive the output path unless the caller gave one.
RdPath ==
    /\ pc = "rd_path"
    /\ output_path' = DefaultOutput(image_path, output_path)
    /\ pc' = "rd_imread"
    /\ UNCHANGED <<argv, env, io, stdout, image_path, caller, status, out_arg, img, k,
                   rd, rdResult, written>>
    /\ UNCHANGED rsmVars

\* lines 84-89: decode the image; None from the decoder ends the call.
RdImread ==
    /\ pc = "rd_imread"
    /\ io' = io \o <<"imread">>
    /\ IF ~env.decodable
       THEN /\ stdout' = stdout \o <<Msg("failed_to_load", image_path)>>
            /\ rdResult' = None
            /\ pc' = "rd_return"
            /\ UNCHANGED <<img, k>>
       ELSE /\ img' = Some(<<>>)
            /\ stdout' = stdout \o <<Msg("rendering", Len(detections[1]))>>
            /\ k' = 0
            /\ pc' = "rd_loop"
            /\ rdResult' = rdResult
    /\ UNCHANGED <<argv, env, image_path, caller, status, out_arg, output_path, rd, written>>
    /\ UNCHANGED rsmVars

\* The rectangle with the extents taken for the opposite corner.
RectangleNoOffset(det) ==
    [kind |-> "rect", p1 |-> <<det.x, det.y>>, p2 |-> <<det.w, det.h>>]

\* cv2.rectangle of line 96: the two corners of the box.
Rectangle(det) ==
    [kind |-> "rect", p1 |-> <<det.x, det.y>>, p2 |-> <<det.x + det.w, det.y + det.h>>]

\* cv2.putText of lines 99-101: the label and where it is put.
PutText(det) ==
    [kind |-> "text", text |-> Label(det), org |-> <<det.x, Max(10, det.y - 5)>>]

\* lines 91-101: one iteration of the drawing loop.
RdLoop ==
    /\ pc = "rd_loop"
    /\ IF k < Len(detections[1])
       THEN /\ img' = Some(img[1] \o <<Rectangle(detections[1][k + 1]),
                                       PutText(detections[1][k + 1])>>)
            /\ k' = k + 1
            /\ pc' = pc
       ELSE /\ pc' = "rd_imwrite"
            /\ UNCHANGED <<img, k>>
    /\ UNCHANGED <<argv, env, io, stdout, image_path, caller, status, out_arg, output_path, rd,
                   rdResult, written>>
    /\ UNCHANGED rsmVars

\* lines 103-105: encode and write; imwrite returns False when it fails, and
\* its result is not looked at.
RdImwrite ==
    /\ pc = "rd_imwrite"
    /\ io' = io \o <<"imwrite">>
    /\ written' = IF env.writeOK
                  THEN Append(written, [path |-> output_path[1], marks |-> img[1]])
                  ELSE written
    /\ stdout' = stdout \o <<Msg("saved", output_path[1])>>
    /\ rdResult' = Some(output_path[1])
    /\ pc' = "rd_return"
    /\ UNCHANGED <<argv, env, image_path, caller, status, out_arg, output_path, img, k, rd>>
    /\ UNCHANGED rsmVars

\* The return of render_detections to whoever called it.
RdReturn ==
    /\ pc = "rd_return"
    /\ rd' = "returned"
    /\ pc' = IF caller = "main" THEN "main_return" ELSE "done"
    /\ UNCHANGED <<argv, env, io, stdout, image_path, caller, status, out_arg, output_path, img,
                   k, rdResult, written>>
    /\ UNCHANGED rsmVars

\* main, lines 136-138: the result of render_detections is not looked at.
MainReturn ==
    /\ pc = "main_return"
    /\ status' = Some(0)
    /\ pc' = "done"
    /\ UNCHANGED <<argv, env, io, stdout, image_path, caller>>
    /\ UNCHANGED rsmVars
    /\ UNCHANGED rdVars

\* --------------------------------------------------------- specifications
Next ==
    \/ MainArgs
    \/ MainExists
    \/ RsmExists
    \/ RsmOpen
    \/ RsmMmap
    \/ RsmCopy
    \/ RsmLoop
    \/ RsmClose
    \/ RsmExcept
    \/ MainAfterRead
    \/ RdPath
    \/ RdImread
    \/ RdLoop
    \/ RdImwrite
    \/ RdReturn
    \/ MainReturn

Spec == Init /\ [][Next]_vars

\* A direct call render_detections(image_path, detections, output_path).
PathChars == {"a", ".", "/"}
Paths == UNION {[1..n -> PathChars] : n \in 1..MaxPathLen}
OutPaths == {<<"o">>, <<"a", ".", "b">>}
DetValues == {Detection(3, 7, 10, 20, 30, 40), Detection(0, 1, 0, 0, 5, 5),
              Detection(-12, 8, -4, 2, 0, 7)}
DetLists == UNION {[1..n -> DetValues] : n \in 0..MaxDets}

InitRender ==
    /\ pc = "rd_path"
    /\ argv = <<>>
    /\ env \in {e \in Env : /\ e.imageExists /\ e.shmExists /\ e.openOK /\ e.mmapOK
                            /\ e.segment.count = 0
                            /\ e.segment.det = DetArray(0)}
    /\ io = <<>>
    /\ stdout = <<>>
    /\ fd = "none"
    /\ shm = "none"
    /\ shared = None
    /\ i = 0
    /\ acc = <<>>
    /\ rsm = "notcalled"
    /\ detections \in {Some(ds) : ds \in DetLists}
    /\ image_path \in Paths
    /\ out_arg \in {None} \cup {Some(p) : p \in OutPaths}
    /\ output_path = out_arg
    /\ img = None
    /\ k = 0
    /\ rd = "running"
    /\ rdResult = None
    /\ caller = "direct"
    /\ written = <<>>
    /\ status = None

NextRender ==
    \/ RdPath
    \/ RdImread
    \/ RdLoop
    \/ RdImwrite
    \/ RdReturn

SpecRender == InitRender /\ [][NextRender]_vars

\* ------------------------------------------------------------ properties
Has(seq, x) == \E j \in 1..Len(seq) : seq[j] = x
Count(seq, x) == Cardinality({j \in 1..Len(seq) : seq[j] = x})
Printed(m) == \E j \in 1..Len(stdout) : stdout[j].msg = m
ShmOps == {"shm_exists", "shm_open", "shm_mmap"}
ImageOps == {"img_exists", "imread", "imwrite"}
WellFormed == env.shmExists /\ env.openOK /\ env.mmapOK

\* C1: for a well-formed segment with count N, 0 <= N <= MAX_BOXES,
\* read_shared_memory returns exactly N records, record j carrying the six
\* fields of det[j], in array order; no entry at an index >= N appears.
C1_ReadReturnsCountRecords ==
    (rsm = "returned" /\ WellFormed /\ env.segment.count \in 0..MAX_BOXES)
    => /\ detections # None
       /\ Len(detections[1]) = env.segment.count
       /\ \A j \in 1..Len(detections[1]) :
            LET r == detections[1][j]
                d == env.segment.det[j - 1]
            IN  /\ r.class_id = d.class_id
                /\ r.confidence = d.confidence
                /\ r.x = d.x /\ r.y = d.y /\ r.w = d.w /\ r.h = d.h

C1_Witness ==
    /\ rsm = "returned" /\ WellFormed
    /\ env.segment.count = MAX_BOXES
    /\ detections # None /\ Len(detections[1]) = MAX_BOXES

\* C2: when the segment does not exist, read_shared_memory reports an error
\* and returns None without opening or mapping anything, and main returns a
\* non-zero status without calling render_detections or writing an image.
C2_MissingSegment ==
    (rsm # "notcalled" /\ ~env.shmExists)
    => /\ ~Has(io, "shm_open") /\ ~Has(io, "shm_mmap")
       /\ fd = "none" /\ shm = "none"
       /\ rd = "notcalled" /\ written = <<>> /\ ~Has(io, "imwrite")
       /\ (rsm = "returned" => detections = None /\ Printed("shm_not_found"))
       /\ (pc = "done" => status # None /\ status[1] # 0)

C2_Witness == pc = "done" /\ rsm = "returned" /\ ~env.shmExists /\ status = Some(1)

\* C3: with any number of arguments other than exactly one, main prints
\* usage and returns 1, and performs no shared-memory and no image operation.
C3_BadArgumentCount ==
    (Len(argv) # 1 /\ caller = "main")
    => /\ io = <<>>
       /\ rsm = "notcalled" /\ rd = "notcalled" /\ written = <<>>
       /\ (pc = "done" => status = Some(1) /\ Printed("usage"))

C3_Witness == pc = "done" /\ caller = "main" /\ Len(argv) >= 2 /\ Printed("usage")

\* C4: with exactly one argument naming a nonexistent image, main exits with
\* status 1 and read_shared_memory is never called.
C4_MissingImageBeforeRead ==
    (Len(argv) = 1 /\ ~env.imageExists)
    => /\ rsm = "notcalled"
       /\ \A j \in 1..Len(io) : io[j] \notin ShmOps
       /\ (pc = "done" => status = Some(1))

C4_Witness ==
    pc = "done" /\ Len(argv) = 1 /\ ~env.imageExists /\ Has(io, "img_exists")

\* C5: an image-decode failure after a successful read is reported, produces
\* no output image, and makes the process exit with a non-zero status.
C5_DecodeFailureExitsNonZero ==
    (pc = "done" /\ caller = "main" /\ rd = "returned" /\ ~env.decodable)
    => /\ Printed("failed_to_load")
       /\ written = <<>>
       /\ status # None /\ status[1] # 0

\* C6: when the write of the output image fails without raising,
\* render_detections returns None and does not announce the file as saved;
\* it returns the output path only when the output was written.
C6_WriteFailureReported ==
    rd = "returned"
    => /\ (Has(io, "imwrite") /\ ~env.writeOK) => (rdResult = None /\ ~Printed("saved"))
       /\ rdResult # None => (Len(written) = 1 /\ written[1].path = rdResult[1])

\* C7: on every return path of read_shared_memory every descriptor and
\* mapping it opened has been closed by the time it returns.
C7_ResourcesReleasedOnReturn ==
    rsm = "returned" => fd \in {"none", "closed"} /\ shm \in {"none", "closed"}

RECURSIVE StrToNat(_)
\* The number a string of decimal digits denotes.
StrToNat(str) ==
    IF str = <<>> THEN 0
    ELSE 10 * StrToNat(SubSeq(str, 1, Len(str) - 1))
         + (CHOOSE d \in 0..9 : Digits[d + 1] = str[Len(str)])

IsDigits(str) == str # <<>> /\ \A j \in 1..Len(str) : \E d \in 1..10 : Digits[d] = str[j]

\* The text reads "ID:<class id> <confidence>", the class id in decimal and
\* the confidence with exactly two decimals, within half a hundredth of c.
LabelShows(text, cls, c) ==
    \E sp \in 4..Len(text) :
        LET idStr == SubSeq(text, 4, sp - 1)
            cfStr == SubSeq(text, sp + 1, Len(text))
            idAbs == IF idStr # <<>> /\ idStr[1] = "-" THEN Tail(idStr) ELSE idStr
            cfAbs == IF cfStr # <<>> /\ cfStr[1] = "-" THEN Tail(cfStr) ELSE cfStr
            n == Len(cfAbs)
        IN  /\ SubSeq(text, 1, 3) = <<"I", "D", ":">>
            /\ text[sp] = " "
            /\ IsDigits(idAbs)
            /\ (IF idAbs = idStr THEN StrToNat(idAbs) ELSE -StrToNat(idAbs)) = cls
            /\ n >= 4 /\ cfAbs[n - 2] = "."
            /\ IsDigits(SubSeq(cfAbs, 1, n - 3)) /\ IsDigits(SubSeq(cfAbs, n - 1, n))
            /\ (cfAbs # cfStr => c < 0)
            /\ LET hd == 100 * StrToNat(SubSeq(cfAbs, 1, n - 3))
                         + StrToNat(SubSeq(cfAbs, n - 1, n))
                   a == IF c < 0 THEN -c ELSE c
                   diff == 100 * a - ConfDen * hd
               IN  2 * diff <= ConfDen /\ -2 * diff <= ConfDen

IsExtAt(p, d) ==
    /\ d < Len(p) /\ p[d + 1] = "."
    /\ \A j \in (d + 2)..Len(p) : p[j] \notin {".", "/"}
    /\ \E j \in 1..d : p[j] # "." /\ \A m \in j..d : p[m] # "/"

\* C9: without an output path the output goes to the input path with
\* "_detected" inserted before its extension (appended when it has none),
\* which always differs from the input path; a supplied path is used as is.
C9_DerivedOutputPath ==
    (pc # "rd_path" /\ rd # "notcalled")
    => /\ output_path # None
       /\ \A j \in 1..Len(written) : written[j].path = output_path[1]
       /\ IF out_arg # None
          THEN output_path = out_arg
          ELSE LET p == image_path
                   o == output_path[1]
               IN  /\ o # p
                   /\ \A d \in 0..Len(p) :
                        IsExtAt(p, d) =>
                            o = SubSeq(p, 1, d) \o Suffix \o SubSeq(p, d + 1, Len(p))
                   /\ (\A d \in 0..Len(p) : ~IsExtAt(p, d)) => o = p \o Suffix

C9_Witness ==
    /\ rd = "returned" /\ out_arg = None /\ Len(written) = 1
    /\ image_path = <<"a", ".", "a">>
    /\ written[1].path = <<"a">> \o Suffix \o <<".", "a">>

\* C10: with a count outside 0..MAX_BOXES read_shared_memory never returns a
\* record from outside the array: count > MAX_BOXES gives None, no partial
\* list; count < 0 gives the empty list; never more than MAX_BOXES records.
C10_CountOutOfRange ==
    rsm = "returned"
    => /\ detections # None =>
            /\ Len(detections[1]) <= MAX_BOXES
            /\ \A j \in 1..Len(detections[1]) :
                 \E m \in 0..(MAX_BOXES - 1) :
                    detections[1][j] = env.segment.det[m]
       /\ env.segment.count > MAX_BOXES => detections = None
       /\ (WellFormed /\ env.segment.count < 0) => detections = Some(<<>>)

C10_Witness ==
    /\ rsm = "returned" /\ WellFormed /\ shared # None
    /\ env.segment.count > MAX_BOXES /\ i = MAX_BOXES /\ detections = None

====
